---------------------------- MODULE Spec2Model ----------------------------
(***************************************************************************)
(* Model of src/src/app.py: the MCPImageAnalyzer client (construction,     *)
(* connect, and the four analysis methods) driven by an environment that   *)
(* decides the outcome of every handshake and of every remote call.        *)
(*                                                                         *)
(* Representation of Python values.  A Python str is a sequence of atoms   *)
(* (TLA+ strings): text that json.loads scans is atomised per character,   *)
(* message literals of app.py are atomised per word.  Every Python object  *)
(* that an analysis method can return is a tagged record [t, v]:           *)
(*   "str"  v = sequence of atoms      "int"  v = the integer              *)
(*   "bool" v = TRUE / FALSE           "None" v = <<>>                     *)
(*   "list" v = sequence of objects                                        *)
(*   "dict" v = sequence of [k, val] with distinct k, in insertion order   *)
(***************************************************************************)
EXTENDS Integers, Sequences, FiniteSets, TLC

VARIABLES space_url, client, connection_status, connects, calls, last

vars == <<space_url, client, connection_status, connects, calls, last>>

(***************************************************************************)
(* Bounds of the model.                                                    *)
(***************************************************************************)
MaxConnects == 3
MaxCalls == 3

(***************************************************************************)
(* Python values.                                                          *)
(***************************************************************************)
PyStr(s) == [t |-> "str", v |-> s]
PyInt(n) == [t |-> "int", v |-> n]
PyBool(b) == [t |-> "bool", v |-> b]
PyNone == [t |-> "None", v |-> <<>>]
PyList(items) == [t |-> "list", v |-> items]
PyDict(pairs) == [t |-> "dict", v |-> pairs]
Pair(key, value) == [k |-> key, val |-> value]

\* isinstance(x, str)
IsStr(x) == x.t = "str"
\* isinstance(x, dict)
IsDict(x) == x.t = "dict"
\* key in d
HasKey(d, key) == \E i \in 1..Len(d.v) : d.v[i].k = key
\* d[key]
Get(d, key) == d.v[CHOOSE i \in 1..Len(d.v) : d.v[i].k = key].val

\* dict[key] = value on the pair list: an existing key keeps its position
\* and takes the new value, a new key is appended.
DictSet(pairs, key, value) ==
    IF \E i \in 1..Len(pairs) : pairs[i].k = key
    THEN [i \in 1..Len(pairs) |->
             IF pairs[i].k = key THEN Pair(key, value) ELSE pairs[i]]
    ELSE Append(pairs, Pair(key, value))

(***************************************************************************)
(* json.loads (app.py lines 42 and 93), as the standard decoder scans a    *)
(* str: whitespace, objects, arrays, strings with the single-character     *)
(* escapes, integers and the literals true / false / null.  A parse result *)
(* is [ok, val, end, msg]: end is the index after the value, msg the       *)
(* JSONDecodeError message when ok is FALSE.  Fractions, exponents, \u     *)
(* escapes and NaN / Infinity lie outside the alphabet of the modelled     *)
(* responses; str(e) of a JSONDecodeError is taken to be its message,      *)
(* without the line and column that follow it.                             *)
(***************************************************************************)
Quote == "\""
Backslash == "\\"
Whitespace == {" ", "\t", "\n", "\r"}
Digits == {"0", "1", "2", "3", "4", "5", "6", "7", "8", "9"}

DigitVal(c) ==
    CASE c = "0" -> 0 [] c = "1" -> 1 [] c = "2" -> 2 [] c = "3" -> 3
      [] c = "4" -> 4 [] c = "5" -> 5 [] c = "6" -> 6 [] c = "7" -> 7
      [] c = "8" -> 8 [] c = "9" -> 9

Parsed(value, e) == [ok |-> TRUE, val |-> value, end |-> e, msg |-> <<>>]
DecodeError(m, e) == [ok |-> FALSE, val |-> PyNone, end |-> e, msg |-> m]

\* s[i:i+1]
CharAt(s, i) == IF i >= 1 /\ i <= Len(s) THEN s[i] ELSE ""

\* s[i:i+Len(word)] == word
StartsWith(s, i, word) ==
    /\ i + Len(word) - 1 <= Len(s)
    /\ \A j \in 1..Len(word) : s[i + j - 1] = word[j]

RECURSIVE SkipWhitespace(_, _)
SkipWhitespace(s, i) ==
    IF i <= Len(s) /\ s[i] \in Whitespace THEN SkipWhitespace(s, i + 1) ELSE i

Unescape(c) ==
    CASE c = "n" -> "\n" [] c = "t" -> "\t" [] c = "r" -> "\r"
      [] OTHER -> c

\* scanstring: i is the index after the opening quote.
RECURSIVE ScanString(_, _, _)
ScanString(s, i, acc) ==
    IF i > Len(s) THEN DecodeError(<<"Unterminated", "string", "starting", "at">>, i)
    ELSE IF s[i] = Quote THEN Parsed(acc, i + 1)
    ELSE IF s[i] = Backslash THEN
        IF i + 1 > Len(s)
        THEN DecodeError(<<"Unterminated", "string", "starting", "at">>, i)
        ELSE IF s[i + 1] \in {Quote, Backslash, "/", "n", "t", "r"}
        THEN ScanString(s, i + 2, Append(acc, Unescape(s[i + 1])))
        ELSE DecodeError(<<"Invalid", "\\escape">>, i)
    ELSE IF s[i] \in {"\t", "\n", "\r"}
    THEN DecodeError(<<"Invalid", "control", "character", "at">>, i)
    ELSE ScanString(s, i + 1, Append(acc, s[i]))

\* The digits of NUMBER_RE's integer part: "0" alone, or [1-9][0-9]*.
RECURSIVE ScanDigits(_, _, _)
ScanDigits(s, i, n) ==
    IF i <= Len(s) /\ s[i] \in Digits
    THEN ScanDigits(s, i + 1, n * 10 + DigitVal(s[i]))
    ELSE Parsed(n, i)

ScanInteger(s, i) ==
    IF CharAt(s, i) = "0" THEN Parsed(0, i + 1)
    ELSE ScanDigits(s, i, 0)

RECURSIVE ScanOnce(_, _), ObjectPairs(_, _, _), ArrayItems(_, _, _)

\* JSONObject: i is the index after "{".
JSONObject(s, i) ==
    LET e == IF CharAt(s, i) \in Whitespace THEN SkipWhitespace(s, i) ELSE i
    IN  IF CharAt(s, e) = "}" THEN Parsed(PyDict(<<>>), e + 1)
        ELSE IF CharAt(s, e) # Quote
        THEN DecodeError(<<"Expecting", "property", "name", "enclosed", "in",
                           "double", "quotes">>, e)
        ELSE ObjectPairs(s, e + 1, <<>>)

\* The while loop of JSONObject: i is the index after a key's opening quote.
ObjectPairs(s, i, pairs) ==
    LET key == ScanString(s, i, <<>>)
    IN  IF ~key.ok THEN key
        ELSE
        LET c == SkipWhitespace(s, key.end)
        IN  IF CharAt(s, c) # ":"
            THEN DecodeError(<<"Expecting", "':'", "delimiter">>, c)
            ELSE
            LET value == ScanOnce(s, SkipWhitespace(s, c + 1))
            IN  IF ~value.ok THEN value
                ELSE
                LET next == DictSet(pairs, key.val, value.val)
                    d == SkipWhitespace(s, value.end)
                IN  IF CharAt(s, d) = "}" THEN Parsed(PyDict(next), d + 1)
                    ELSE IF CharAt(s, d) # ","
                    THEN DecodeError(<<"Expecting", "','", "delimiter">>, d)
                    ELSE
                    LET q == SkipWhitespace(s, d + 1)
                    IN  IF CharAt(s, q) # Quote
                        THEN DecodeError(<<"Expecting", "property", "name",
                                           "enclosed", "in", "double",
                                           "quotes">>, q)
                        ELSE ObjectPairs(s, q + 1, next)

\* JSONArray: i is the index after "[".
JSONArray(s, i) ==
    LET e == SkipWhitespace(s, i)
    IN  IF CharAt(s, e) = "]" THEN Parsed(PyList(<<>>), e + 1)
        ELSE ArrayItems(s, e, <<>>)

\* The while loop of JSONArray: i is the index of the next item.
ArrayItems(s, i, items) ==
    LET value == ScanOnce(s, i)
    IN  IF ~value.ok THEN value
        ELSE
        LET next == Append(items, value.val)
            d == SkipWhitespace(s, value.end)
        IN  IF CharAt(s, d) = "]" THEN Parsed(PyList(next), d + 1)
            ELSE IF CharAt(s, d) # ","
            THEN DecodeError(<<"Expecting", "','", "delimiter">>, d)
            ELSE ArrayItems(s, SkipWhitespace(s, d + 1), next)

\* scan_once: the value that starts at index i.
ScanOnce(s, i) ==
    LET c == CharAt(s, i)
    IN  IF c = Quote THEN
            LET str == ScanString(s, i + 1, <<>>)
            IN  IF str.ok THEN Parsed(PyStr(str.val), str.end) ELSE str
        ELSE IF c = "{" THEN JSONObject(s, i + 1)
        ELSE IF c = "[" THEN JSONArray(s, i + 1)
        ELSE IF c = "n" /\ StartsWith(s, i, <<"n", "u", "l", "l">>)
        THEN Parsed(PyNone, i + 4)
        ELSE IF c = "t" /\ StartsWith(s, i, <<"t", "r", "u", "e">>)
        THEN Parsed(PyBool(TRUE), i + 4)
        ELSE IF c = "f" /\ StartsWith(s, i, <<"f", "a", "l", "s", "e">>)
        THEN Parsed(PyBool(FALSE), i + 5)
        ELSE IF c \in Digits THEN
            LET n == ScanInteger(s, i)
            IN  Parsed(PyInt(n.val), n.end)
        ELSE IF c = "-" /\ CharAt(s, i + 1) \in Digits THEN
            LET n == ScanInteger(s, i + 1)
            IN  Parsed(PyInt(0 - n.val), n.end)
        ELSE DecodeError(<<"Expecting", "value">>, i)

\* json.loads(s): one value between optional whitespace, nothing after it.
JsonLoads(s) ==
    LET value == ScanOnce(s, SkipWhitespace(s, 1))
    IN  IF ~value.ok THEN value
        ELSE
        LET e == SkipWhitespace(s, value.end)
        IN  IF e # Len(s) + 1 THEN DecodeError(<<"Extra", "data">>, e)
            ELSE value

(***************************************************************************)
(* Python text helpers used by app.py.                                     *)
(***************************************************************************)
\* str.rstrip('/') on a URL whose separators are atoms of their own.
RECURSIVE RStrip(_)
RStrip(s) ==
    IF Len(s) > 0 /\ s[Len(s)] = "/" THEN RStrip(SubSeq(s, 1, Len(s) - 1))
    ELSE s

\* The digits of a non-negative integer, most significant first.
RECURSIVE DigitsOf(_)
DigitsOf(n) ==
    LET d == CHOOSE c \in Digits : DigitVal(c) = n % 10
    IN  IF n < 10 THEN <<d>> ELSE Append(DigitsOf(n \div 10), d)

\* s.join(parts)
RECURSIVE Join(_, _)
Join(parts, sep) ==
    IF Len(parts) = 0 THEN <<>>
    ELSE IF Len(parts) = 1 THEN parts[1]
    ELSE parts[1] \o sep \o Join(Tail(parts), sep)

\* repr(x), and str(x) of anything that is not a str.
RECURSIVE Repr(_)
Repr(x) ==
    CASE x.t = "str" -> <<"'">> \o x.v \o <<"'">>
      [] x.t = "int" ->
            IF x.v < 0 THEN <<"-">> \o DigitsOf(0 - x.v) ELSE DigitsOf(x.v)
      [] x.t = "bool" -> IF x.v THEN <<"True">> ELSE <<"False">>
      [] x.t = "None" -> <<"None">>
      [] x.t = "list" ->
            <<"[">> \o Join([i \in 1..Len(x.v) |-> Repr(x.v[i])], <<",", " ">>)
                    \o <<"]">>
      [] x.t = "dict" ->
            <<"{">> \o Join([i \in 1..Len(x.v) |->
                                <<"'">> \o x.v[i].k \o <<"'", ":", " ">>
                                        \o Repr(x.v[i].val)],
                            <<",", " ">>)
                    \o <<"}">>

\* str(x), as an f-string formats {x}.
Str(x) == IF IsStr(x) THEN x.v ELSE Repr(x)

(***************************************************************************)
(* MCPImageAnalyzer.                                                       *)
(***************************************************************************)
\* self.client = None
NoClient == 0
\* image is None
NoImage == "None"

\* The values of self.connection_status.  The emoji of app.py's literals are
\* written as ASCII names: the check mark that ends "Connected" and the cross
\* that ends "Connection Failed" are left off the status values, and appear
\* in messages as the atoms ":white_check_mark:", ":x:", ":triangular_ruler:"
\* and ":art:".
Disconnected == "Disconnected"
Connected == "Connected"
ConnectionFailed == "Connection Failed"

ErrorKey == <<"e", "r", "r", "o", "r">>
\* {"error": text}
ErrorDict(text) == PyDict(<<Pair(ErrorKey, PyStr(text))>>)

\* The analyzer's fields.
Self == [space_url |-> space_url, client |-> client,
         connection_status |-> connection_status]

\* What a method call leaves behind: the fields, the returned value, whether
\* it ended by raising, and how many times it called self.client.predict.
Return(self, value, n) == [self |-> self, ret |-> value, raised |-> FALSE, ncalls |-> n]
Raise(self, n) == [self |-> self, ret |-> PyNone, raised |-> TRUE, ncalls |-> n]

\* MCPImageAnalyzer.__init__(space_url)
NewAnalyzer(url) ==
    [space_url |-> RStrip(url), client |-> NoClient,
     connection_status |-> Disconnected]

\* connect with an except branch that forgets the status.
connect_KeepsStatus(self, handshake) ==
    IF handshake.ok
    THEN Return([self EXCEPT !.client = handshake.handle,
                             !.connection_status = Connected],
                <<<<":white_check_mark:", "Successfully", "connected", "to">>
                      \o self.space_url,
                  "success">>, 0)
    ELSE Return(self,
                <<<<":x:", "Failed", "to", "connect", "to">>
                      \o self.space_url \o <<":">> \o handshake.reason,
                  "error">>, 0)

\* connect with an except branch that resets the analyzer.
connect_Resets(self, handshake) ==
    IF handshake.ok
    THEN Return([self EXCEPT !.client = handshake.handle,
                             !.connection_status = Connected],
                <<<<":white_check_mark:", "Successfully", "connected", "to">>
                      \o self.space_url,
                  "success">>, 0)
    ELSE Return([self EXCEPT !.client = NoClient,
                             !.connection_status = Disconnected],
                <<<<":x:", "Failed", "to", "connect", "to">>
                      \o self.space_url \o <<":">> \o handshake.reason,
                  "error">>, 0)

\* MCPImageAnalyzer.connect: handshake is the outcome of Client(self.space_url),
\* either a new client object (handshake.handle) or an Exception whose str()
\* is handshake.reason.
connect(self, handshake) ==
    IF handshake.ok
    THEN Return([self EXCEPT !.client = handshake.handle,
                             !.connection_status = Connected],
                <<<<":white_check_mark:", "Successfully", "connected", "to">>
                      \o self.space_url,
                  "success">>, 0)
    ELSE Return([self EXCEPT !.connection_status = ConnectionFailed],
                <<<<":x:", "Failed", "to", "connect", "to">>
                      \o self.space_url \o <<":">> \o handshake.reason,
                  "error">>, 0)

\* analyze_image with the image test ahead of the client test.
analyze_image_ImageFirst(self, image, remote) ==
    IF image = NoImage
    THEN Return(self, ErrorDict(<<"No", "image", "provided">>), 0)
    ELSE IF self.client = NoClient
    THEN Return(self, ErrorDict(<<"Not", "connected", "to", "MCP", "server.",
                                  "Please", "connect", "first.">>), 0)
    ELSE IF remote.raises
    THEN Return(self, ErrorDict(<<"Analysis", "failed:">> \o remote.reason), 1)
    ELSE IF IsStr(remote.value)
    THEN LET loaded == JsonLoads(remote.value.v)
         IN  IF loaded.ok THEN Return(self, loaded.val, 1)
             ELSE Return(self, ErrorDict(<<"Analysis", "failed:">> \o loaded.msg), 1)
    ELSE Return(self, remote.value, 1)

\* analyze_image that returns the response without json.loads.
analyze_image_Unparsed(self, image, remote) ==
    IF self.client = NoClient
    THEN Return(self, ErrorDict(<<"Not", "connected", "to", "MCP", "server.",
                                  "Please", "connect", "first.">>), 0)
    ELSE IF image = NoImage
    THEN Return(self, ErrorDict(<<"No", "image", "provided">>), 0)
    ELSE IF remote.raises
    THEN Return(self, ErrorDict(<<"Analysis", "failed:">> \o remote.reason), 1)
    ELSE Return(self, remote.value, 1)

\* MCPImageAnalyzer.analyze_image: remote is the outcome of
\* self.client.predict, either a value (remote.value) or an Exception whose
\* str() is remote.reason.
analyze_image(self, image, remote) ==
    IF self.client = NoClient
    THEN Return(self, ErrorDict(<<"Not", "connected", "to", "MCP", "server.",
                                  "Please", "connect", "first.">>), 0)
    ELSE IF image = NoImage
    THEN Return(self, ErrorDict(<<"No", "image", "provided">>), 0)
    ELSE IF remote.raises
    THEN Return(self, ErrorDict(<<"Analysis", "failed:">> \o remote.reason), 1)
    ELSE IF IsStr(remote.value)
    THEN LET loaded == JsonLoads(remote.value.v)
         IN  IF loaded.ok THEN Return(self, loaded.val, 1)
             ELSE Return(self, ErrorDict(<<"Analysis", "failed:">> \o loaded.msg), 1)
    ELSE Return(self, remote.value, 1)

\* get_orientation without the image test.
get_orientation_NoImageTest(self, image, remote) ==
    IF self.client = NoClient
    THEN Return(self, PyStr(<<":x:", "Not", "connected", "to", "MCP", "server">>), 0)
    ELSE IF remote.raises
    THEN Return(self, PyStr(<<":x:", "Error:">> \o remote.reason), 1)
    ELSE Return(self, PyStr(<<":triangular_ruler:", "Orientation:">>
                                \o Str(remote.value)), 1)

\* get_orientation that calls predict a second time when the first call fails.
get_orientation_Retry(self, image, remote) ==
    IF self.client = NoClient
    THEN Return(self, PyStr(<<":x:", "Not", "connected", "to", "MCP", "server">>), 0)
    ELSE IF image = NoImage
    THEN Return(self, PyStr(<<":x:", "No", "image", "provided">>), 0)
    ELSE IF remote.raises
    THEN Return(self, PyStr(<<":x:", "Error:">> \o remote.reason), 2)
    ELSE Return(self, PyStr(<<":triangular_ruler:", "Orientation:">>
                                \o Str(remote.value)), 1)

\* MCPImageAnalyzer.get_orientation
get_orientation(self, image, remote) ==
    IF self.client = NoClient
    THEN Return(self, PyStr(<<":x:", "Not", "connected", "to", "MCP", "server">>), 0)
    ELSE IF image = NoImage
    THEN Return(self, PyStr(<<":x:", "No", "image", "provided">>), 0)
    ELSE IF remote.raises
    THEN Return(self, PyStr(<<":x:", "Error:">> \o remote.reason), 1)
    ELSE Return(self, PyStr(<<":triangular_ruler:", "Orientation:">>
                                \o Str(remote.value)), 1)

\* analyze_colors that drops the connection when the call fails.
analyze_colors_Disconnects(self, image, remote) ==
    IF self.client = NoClient
    THEN Return(self, PyStr(<<":x:", "Not", "connected", "to", "MCP", "server">>), 0)
    ELSE IF image = NoImage
    THEN Return(self, PyStr(<<":x:", "No", "image", "provided">>), 0)
    ELSE IF remote.raises
    THEN Return([self EXCEPT !.client = NoClient,
                             !.connection_status = ConnectionFailed],
                PyStr(<<":x:", "Error:">> \o remote.reason), 1)
    ELSE Return(self, PyStr(<<":art:", "Color", "Analysis:", "\n">>
                                \o Str(remote.value)), 1)

\* MCPImageAnalyzer.analyze_colors
analyze_colors(self, image, remote) ==
    IF self.client = NoClient
    THEN Return(self, PyStr(<<":x:", "Not", "connected", "to", "MCP", "server">>), 0)
    ELSE IF image = NoImage
    THEN Return(self, PyStr(<<":x:", "No", "image", "provided">>), 0)
    ELSE IF remote.raises
    THEN Return(self, PyStr(<<":x:", "Error:">> \o remote.reason), 1)
    ELSE Return(self, PyStr(<<":art:", "Color", "Analysis:", "\n">>
                                \o Str(remote.value)), 1)

\* extract_text_info with json.loads outside the try block.
extract_text_info_LoadsOutsideTry(self, image, remote) ==
    IF self.client = NoClient
    THEN Return(self, ErrorDict(<<"Not", "connected", "to", "MCP", "server">>), 0)
    ELSE IF image = NoImage
    THEN Return(self, ErrorDict(<<"No", "image", "provided">>), 0)
    ELSE IF remote.raises
    THEN Return(self, ErrorDict(<<"Text", "analysis", "failed:">> \o remote.reason), 1)
    ELSE IF IsStr(remote.value)
    THEN LET loaded == JsonLoads(remote.value.v)
         IN  IF loaded.ok THEN Return(self, loaded.val, 1) ELSE Raise(self, 1)
    ELSE Return(self, remote.value, 1)

\* MCPImageAnalyzer.extract_text_info
extract_text_info(self, image, remote) ==
    IF self.client = NoClient
    THEN Return(self, ErrorDict(<<"Not", "connected", "to", "MCP", "server">>), 0)
    ELSE IF image = NoImage
    THEN Return(self, ErrorDict(<<"No", "image", "provided">>), 0)
    ELSE IF remote.raises
    THEN Return(self, ErrorDict(<<"Text", "analysis", "failed:">> \o remote.reason), 1)
    ELSE IF IsStr(remote.value)
    THEN LET loaded == JsonLoads(remote.value.v)
         IN  IF loaded.ok THEN Return(self, loaded.val, 1)
             ELSE Return(self, ErrorDict(<<"Text", "analysis", "failed:">>
                                             \o loaded.msg), 1)
    ELSE Return(self, remote.value, 1)

\* connect_to_server: the button handler around analyzer.connect(); it
\* returns the status text, the button variant and the panel's visibility.
connect_to_server(self, handshake) ==
    LET r == connect(self, handshake)
    IN  IF r.raised THEN r
        ELSE IF r.ret[2] = "success"
        THEN [r EXCEPT !.ret = <<r.ret[1], "primary", TRUE>>]
        ELSE [r EXCEPT !.ret = <<r.ret[1], "stop", FALSE>>]

(***************************************************************************)
(* The environment: constructor arguments, handshake outcomes, images and  *)
(* the outcomes of self.client.predict.                                    *)
(***************************************************************************)
\* space_url defaults to "https://chris4k-mcp-images.hf.space".
DefaultUrl == <<"https:", "/", "/", "chris4k-mcp-images.hf.space">>
UrlArgs ==
    {DefaultUrl, DefaultUrl \o <<"/">>, <<"http:", "/", "/", "localhost:7860", "/", "/">>}

Images == {NoImage, "Red Rectangle (400x300)"}

ConnectReasons == {<<"Could", "not", "fetch", "config">>, <<"Connection", "refused">>}
PredictReasons == {<<"Connection", "timed", "out">>, <<"Internal", "Server", "Error">>}

\* {"width":10,"height":20}
WidthHeightText ==
    <<"{", Quote, "w", "i", "d", "t", "h", Quote, ":", "1", "0", ",", Quote,
      "h", "e", "i", "g", "h", "t", Quote, ":", "2", "0", "}">>
\* _{_"w"_:_1_}_ with a space for every _
SpacedText ==
    <<" ", "{", " ", Quote, "w", Quote, " ", ":", " ", "1", " ", "}", " ">>
\* [1, 2]
ListText == <<"[", "1", ",", " ", "2", "]">>
\* -7
IntText == <<"-", "7">>
\* null
NullText == <<"n", "u", "l", "l">>
\* "ab"
StringText == <<Quote, "a", "b", Quote>>
\* true
TrueText == <<"t", "r", "u", "e">>
\* {"w":1,"h":2,"w":3}
DuplicateKeyText ==
    <<"{", Quote, "w", Quote, ":", "1", ",", Quote, "h", Quote, ":", "2", ",",
      Quote, "w", Quote, ":", "3", "}">>
\* {"error":"x","w":1}
ErrorAndDataText ==
    <<"{", Quote, "e", "r", "r", "o", "r", Quote, ":", Quote, "x", Quote, ",",
      Quote, "w", Quote, ":", "1", "}">>
\* {"size":{"w":1},"tags":["a"]}
NestedText ==
    <<"{", Quote, "s", "i", "z", "e", Quote, ":", "{", Quote, "w", Quote, ":",
      "1", "}", ",", Quote, "t", "a", "g", "s", Quote, ":", "[", Quote, "a",
      Quote, "]", "}">>
\* the empty str
EmptyText == <<>>
\* landscape
PlainText == <<"l", "a", "n", "d", "s", "c", "a", "p", "e">>
\* {"width":10
TruncatedText ==
    <<"{", Quote, "w", "i", "d", "t", "h", Quote, ":", "1", "0">>
\* {w:1}
BareKeyText == <<"{", "w", ":", "1", "}">>
\* {"w":1}x
TrailingText == <<"{", Quote, "w", Quote, ":", "1", "}", "x">>
\* {"w":}
MissingValueText == <<"{", Quote, "w", Quote, ":", "}">>
\* {"w" 1}
MissingColonText == <<"{", Quote, "w", Quote, " ", "1", "}">>
\* "ab
OpenStringText == <<Quote, "a", "b">>

WellFormedTexts ==
    {WidthHeightText, SpacedText, ListText, IntText, NullText, StringText,
     TrueText, DuplicateKeyText, ErrorAndDataText, NestedText}
MalformedTexts ==
    {EmptyText, PlainText, TruncatedText, BareKeyText, TrailingText,
     MissingValueText, MissingColonText, OpenStringText}

\* Values the remote capability hands back already structured.
WidthHeightDict ==
    PyDict(<<Pair(<<"w", "i", "d", "t", "h">>, PyInt(10)),
             Pair(<<"h", "e", "i", "g", "h", "t">>, PyInt(20))>>)
StructuredValues ==
    {WidthHeightDict, PyList(<<PyInt(1), PyInt(2)>>), PyInt(3), PyNone,
     PyDict(<<Pair(ErrorKey, PyStr(<<"x">>)), Pair(<<"w">>, PyInt(1))>>)}

\* Outcomes of Client(self.space_url) for the n-th connect() call.
Handshakes(n) ==
    {[ok |-> TRUE, handle |-> n, reason |-> <<>>]}
        \cup {[ok |-> FALSE, handle |-> NoClient, reason |-> why] : why \in ConnectReasons}

\* Outcomes of self.client.predict(image=..., api_name=...).
Remotes ==
    {[raises |-> FALSE, value |-> PyStr(text), reason |-> <<>>] :
        text \in WellFormedTexts \cup MalformedTexts}
        \cup {[raises |-> FALSE, value |-> x, reason |-> <<>>] : x \in StructuredValues}
        \cup {[raises |-> TRUE, value |-> PyNone, reason |-> why] : why \in PredictReasons}

(***************************************************************************)
(* The state machine.  last describes the latest call: the method, its     *)
(* image, the outcome the environment chose (env), the fields before the   *)
(* call (pre), the returned value, whether the call raised, the number of  *)
(* remote calls it made and, for connect, the button handler's outputs.    *)
(* calls counts the remote calls made so far, connects the connect() calls.*)
(***************************************************************************)
AnalysisOps == {"analyze_image", "get_orientation", "analyze_colors", "extract_text_info"}
DictOps == {"analyze_image", "extract_text_info"}

Init ==
    \E url \in UrlArgs :
        LET new == NewAnalyzer(url)
        IN  /\ space_url = new.space_url
            /\ client = new.client
            /\ connection_status = new.connection_status
            /\ connects = 0
            /\ calls = 0
            /\ last = [op |-> "__init__", image |-> NoImage, env |-> url,
                       pre |-> new, ret |-> PyNone, raised |-> FALSE,
                       ncalls |-> 0, ui |-> <<>>]

\* The fields after a call, and the record of the call.
Called(op, image, env, r, ui) ==
    /\ space_url' = r.self.space_url
    /\ client' = r.self.client
    /\ connection_status' = r.self.connection_status
    /\ calls' = calls + r.ncalls
    /\ last' = [op |-> op, image |-> image, env |-> env, pre |-> Self,
                ret |-> r.ret, raised |-> r.raised, ncalls |-> r.ncalls,
                ui |-> ui]

Connect ==
    /\ connects < MaxConnects
    /\ \E handshake \in Handshakes(connects + 1) :
          Called("connect", NoImage, handshake, connect(Self, handshake),
                 connect_to_server(Self, handshake).ret)
    /\ connects' = connects + 1

AnalyzeImage ==
    \E image \in Images, remote \in Remotes :
        LET r == analyze_image(Self, image, remote)
        IN  /\ calls + r.ncalls <= MaxCalls
            /\ Called("analyze_image", image, remote, r, <<>>)
            /\ UNCHANGED connects

GetOrientation ==
    \E image \in Images, remote \in Remotes :
        LET r == get_orientation(Self, image, remote)
        IN  /\ calls + r.ncalls <= MaxCalls
            /\ Called("get_orientation", image, remote, r, <<>>)
            /\ UNCHANGED connects

AnalyzeColors ==
    \E image \in Images, remote \in Remotes :
        LET r == analyze_colors(Self, image, remote)
        IN  /\ calls + r.ncalls <= MaxCalls
            /\ Called("analyze_colors", image, remote, r, <<>>)
            /\ UNCHANGED connects

ExtractTextInfo ==
    \E image \in Images, remote \in Remotes :
        LET r == extract_text_info(Self, image, remote)
        IN  /\ calls + r.ncalls <= MaxCalls
            /\ Called("extract_text_info", image, remote, r, <<>>)
            /\ UNCHANGED connects

Next ==
    \/ Connect
    \/ AnalyzeImage
    \/ GetOrientation
    \/ AnalyzeColors
    \/ ExtractTextInfo

Spec == Init /\ [][Next]_vars

(***************************************************************************)
(* Vocabulary of the properties.                                           *)
(***************************************************************************)
\* sub occurs in text as a run of consecutive atoms.
Contains(text, sub) ==
    \E i \in 0..(Len(text) - Len(sub)) :
        \A j \in 1..Len(sub) : text[i + j] = sub[j]

\* str.lower() on the capitalised words of app.py's messages.
Lower(word) ==
    CASE word = "Not" -> "not" [] word = "No" -> "no"
      [] word = "Failed" -> "failed" [] OTHER -> word

\* text mentions phrase, whatever the case of its letters.
Mentions(text, phrase) ==
    Contains([i \in 1..Len(text) |-> Lower(text[i])], phrase)

IsAnalysis == last.op \in AnalysisOps

\* The latest call returned an error result: a dict holding the key "error"
\* from analyze_image and extract_text_info, a text marked with the cross
\* from get_orientation and analyze_colors.
IsErrorResult ==
    IF last.op \in DictOps
    THEN IsDict(last.ret) /\ HasKey(last.ret, ErrorKey)
    ELSE IsStr(last.ret) /\ Len(last.ret.v) > 0 /\ last.ret.v[1] = ":x:"

\* The text of that error result.
ErrorText ==
    IF last.op \in DictOps THEN Str(Get(last.ret, ErrorKey)) ELSE last.ret.v

\* The well-formed texts with the value each denotes.
JsonSamples ==
    {[text |-> WidthHeightText, value |-> WidthHeightDict],
     [text |-> SpacedText, value |-> PyDict(<<Pair(<<"w">>, PyInt(1))>>)],
     [text |-> ListText, value |-> PyList(<<PyInt(1), PyInt(2)>>)],
     [text |-> IntText, value |-> PyInt(0 - 7)],
     [text |-> NullText, value |-> PyNone],
     [text |-> StringText, value |-> PyStr(<<"a", "b">>)],
     [text |-> TrueText, value |-> PyBool(TRUE)],
     [text |-> DuplicateKeyText,
      value |-> PyDict(<<Pair(<<"w">>, PyInt(3)), Pair(<<"h">>, PyInt(2))>>)],
     [text |-> ErrorAndDataText,
      value |-> PyDict(<<Pair(ErrorKey, PyStr(<<"x">>)), Pair(<<"w">>, PyInt(1))>>)],
     [text |-> NestedText,
      value |-> PyDict(<<Pair(<<"s", "i", "z", "e">>,
                              PyDict(<<Pair(<<"w">>, PyInt(1))>>)),
                         Pair(<<"t", "a", "g", "s">>,
                              PyList(<<PyStr(<<"a">>)>>))>>)]}

\* The malformed texts with the reason the decoder gives for each.
MalformedSamples ==
    {[text |-> EmptyText, why |-> <<"Expecting", "value">>],
     [text |-> PlainText, why |-> <<"Expecting", "value">>],
     [text |-> TruncatedText, why |-> <<"Expecting", "','", "delimiter">>],
     [text |-> BareKeyText,
      why |-> <<"Expecting", "property", "name", "enclosed", "in", "double", "quotes">>],
     [text |-> TrailingText, why |-> <<"Extra", "data">>],
     [text |-> MissingValueText, why |-> <<"Expecting", "value">>],
     [text |-> MissingColonText, why |-> <<"Expecting", "':'", "delimiter">>],
     [text |-> OpenStringText, why |-> <<"Unterminated", "string", "starting", "at">>]}

(***************************************************************************)
(* C1: no analysis operation performs a remote call while the connection   *)
(* state is not Connected; it returns an error result instead.             *)
(***************************************************************************)
C1_NoCallUnlessConnected ==
    (IsAnalysis /\ last.pre.connection_status # Connected)
        => (last.ncalls = 0 /\ IsErrorResult)

(***************************************************************************)
(* C2: in the Disconnected state every analysis operation, for any image   *)
(* including none, returns an error result mentioning "not connected" and  *)
(* performs no remote call.                                                *)
(***************************************************************************)
C2_DisconnectedSaysNotConnected ==
    (IsAnalysis /\ last.pre.connection_status = Disconnected)
        => /\ ~last.raised
           /\ IsErrorResult
           /\ Mentions(ErrorText, <<"not", "connected">>)
           /\ last.ncalls = 0
           /\ calls = 0

C2_Witness ==
    /\ IsAnalysis
    /\ last.pre.connection_status = Disconnected
    /\ last.image = NoImage
    /\ Mentions(ErrorText, <<"not", "connected">>)

(***************************************************************************)
(* C3: in the Connected state an analysis operation called without an      *)
(* image returns an error result mentioning "no image" and performs no     *)
(* remote call.                                                            *)
(***************************************************************************)
C3_ConnectedNoImage ==
    (IsAnalysis /\ last.pre.connection_status = Connected /\ last.image = NoImage)
        => /\ ~last.raised
           /\ IsErrorResult
           /\ Mentions(ErrorText, <<"no", "image">>)
           /\ last.ncalls = 0

C3_Witness ==
    /\ last.op = "get_orientation"
    /\ last.pre.connection_status = Connected
    /\ last.image = NoImage
    /\ last.ncalls = 0

(***************************************************************************)
(* C4: connect() returns a (message, kind) pair and never raises; after a  *)
(* failed handshake the state is Failed and the message holds the endpoint *)
(* and a failure indication; the state is Connected right after connect()  *)
(* only if the handshake succeeded and the success result was returned.    *)
(***************************************************************************)
C4_ConnectResult ==
    last.op = "connect"
        => /\ ~last.raised
           /\ Len(last.ret) = 2
           /\ last.ret[2] \in {"success", "error"}
           /\ ~last.env.ok
                => /\ connection_status = ConnectionFailed
                   /\ Contains(last.ret[1], space_url)
                   /\ Mentions(last.ret[1], <<"failed">>)
                   /\ last.ret[2] = "error"
           /\ connection_status = Connected
                => /\ last.env.ok
                   /\ last.ret[2] = "success"

C4_Witness ==
    /\ last.op = "connect"
    /\ last.pre.connection_status = Connected
    /\ ~last.env.ok
    /\ connection_status = ConnectionFailed

(***************************************************************************)
(* C5: an analysis operation, whatever its outcome, leaves the connection  *)
(* state, the connection handle and the endpoint as they were.             *)
(***************************************************************************)
C5_AnalysisKeepsFields ==
    IsAnalysis => Self = last.pre

C5_Witness ==
    /\ IsAnalysis
    /\ last.ncalls = 1
    /\ last.env.raises
    /\ client # NoClient
    /\ connection_status = Connected

(***************************************************************************)
(* C6: Connected and with an image, analyze_image and extract_text_info    *)
(* return the value a well-formed JSON str denotes, and return a response  *)
(* that is not a str unchanged.                                            *)
(***************************************************************************)
C6_Normalization ==
    (/\ last.op \in DictOps
     /\ last.pre.connection_status = Connected
     /\ last.image # NoImage
     /\ ~last.env.raises)
        => /\ \A sample \in JsonSamples :
                last.env.value = PyStr(sample.text) => last.ret = sample.value
           /\ ~IsStr(last.env.value) => last.ret = last.env.value

C6_Witness ==
    /\ last.op = "analyze_image"
    /\ last.pre.connection_status = Connected
    /\ last.image # NoImage
    /\ ~last.env.raises
    /\ last.env.value = PyStr(WidthHeightText)
    /\ last.ret = WidthHeightDict

(***************************************************************************)
(* C7: Connected and with an image, a transport failure or a malformed     *)
(* JSON str makes analyze_image and extract_text_info return an error      *)
(* result holding the reason, a transport failure makes get_orientation    *)
(* and analyze_colors return an error text, and no operation raises.       *)
(***************************************************************************)
C7_FailuresBecomeResults ==
    (IsAnalysis /\ last.pre.connection_status = Connected /\ last.image # NoImage)
        => /\ ~last.raised
           /\ last.env.raises
                => IsErrorResult /\ Contains(ErrorText, last.env.reason)
           /\ \A sample \in MalformedSamples :
                (/\ last.op \in DictOps
                 /\ ~last.env.raises
                 /\ last.env.value = PyStr(sample.text))
                    => IsErrorResult /\ Contains(ErrorText, sample.why)

C7_Witness ==
    /\ last.op = "extract_text_info"
    /\ last.pre.connection_status = Connected
    /\ last.image # NoImage
    /\ ~last.env.raises
    /\ last.env.value = PyStr(TruncatedText)
    /\ IsErrorResult

(***************************************************************************)
(* C8: every value analyze_image or extract_text_info returns is a mapping *)
(* of result data without an error marker, or an error marker without      *)
(* result data.                                                            *)
(***************************************************************************)
C8_DataOrError ==
    last.op \in DictOps
        => /\ IsDict(last.ret)
           /\ HasKey(last.ret, ErrorKey) => Len(last.ret.v) = 1

(***************************************************************************)
(* C9: an analysis operation issues at most one remote call, exactly one   *)
(* when Connected with an image; a failed call is not retried, and a later *)
(* invocation issues one call of its own.                                  *)
(***************************************************************************)
C9_OneCallNoRetry ==
    IsAnalysis
        => /\ last.ncalls \in {0, 1}
           /\ (last.pre.connection_status = Connected /\ last.image # NoImage)
                => last.ncalls = 1
           /\ (last.ncalls > 0 /\ last.env.raises)
                => last.ncalls = 1 /\ IsErrorResult

C9_Witness ==
    /\ IsAnalysis
    /\ last.pre.connection_status = Connected
    /\ last.env.raises
    /\ last.ncalls = 1
    /\ calls = 2

(***************************************************************************)
(* C10: the connection state starts as Disconnected and changes only in    *)
(* connect(), to Connected on a successful handshake and to Failed on a    *)
(* handshake error; Failed lasts until a connect() succeeds, and no step   *)
(* leads back to Disconnected.                                             *)
(***************************************************************************)
C10_StateChangesOnlyInConnect ==
    /\ connection_status = Disconnected
    /\ [][/\ connection_status' # connection_status
                => /\ last'.op = "connect"
                   /\ connection_status' =
                        IF last'.env.ok THEN Connected ELSE ConnectionFailed
          /\ connection_status' = Disconnected
                => connection_status = Disconnected
          /\ (connection_status = ConnectionFailed
                /\ connection_status' # ConnectionFailed)
                => (last'.op = "connect" /\ last'.env.ok)]_vars

C10_Witness ==
    /\ IsAnalysis
    /\ last.pre.connection_status = ConnectionFailed
    /\ connection_status = ConnectionFailed

=============================================================================
